---------------------------- MODULE Spec2Model ----------------------------
(***************************************************************************)
(* Model of src/pipeline.py: class VideoPipeline (constructor, preset      *)
(* lookup, process_video, run) together with the part of the environment   *)
(* the code talks to: the two directories and the external encoder.        *)
(*                                                                         *)
(* File names are sequences of one-character strings, so that pathlib's    *)
(* suffix/stem and str.lower() are computed rather than assumed.           *)
(***************************************************************************)
EXTENDS Naturals, Sequences, FiniteSets, TLC

VARIABLES
    dirs,         \* the file system: directory id -> [state, tree]
    output_dir,   \* self.output_dir, a directory id ("in" when it is input_dir)
    preset,       \* self.preset
    config,       \* self.config
    pc,           \* position of the process: init, constructed, loop, encoding, returned, raised
    error,        \* the exception that left the process when pc = "raised"
    input_files,  \* run()'s list input_files
    idx,          \* position of the for loop of run() in input_files
    status,       \* per job: Pending, Running, Succeeded, Failed
    invoked,      \* per job: number of encoder invocations in this run
    outputs,      \* per job: the output path handed to the encoder
    cmd,          \* the command of the invocation in flight
    exits,        \* per job: how its encoder invocation ended
    runNo,        \* number of the current run of the program
    start,        \* the output directory as this run of the program found it
    prev          \* what the previous run of the program did

vars == <<dirs, output_dir, preset, config, pc, error, input_files, idx, status,
          invoked, outputs, cmd, exits, runNo, start, prev>>

-----------------------------------------------------------------------------
(* Bounds of the model *)

MaxEntries == 3      \* entries placed in input_dir before the first run
MaxRuns == 2         \* runs of the program in one behaviour

-----------------------------------------------------------------------------
(* Characters and strings *)

Digits == <<"0","1","2","3","4","5","6","7","8","9">>
Upper == <<"A","B","C","D","E","F","G","H","I","J","K","L","M",
           "N","O","P","Q","R","S","T","U","V","W","X","Y","Z">>
LowerAlpha == <<"a","b","c","d","e","f","g","h","i","j","k","l","m",
                "n","o","p","q","r","s","t","u","v","w","x","y","z">>

\* str.lower() on one character
LowerChar(c) ==
    IF \E i \in 1..26 : Upper[i] = c
    THEN LowerAlpha[CHOOSE i \in 1..26 : Upper[i] = c]
    ELSE c

\* str.lower()
Lower(s) == [i \in 1..Len(s) |-> LowerChar(s[i])]

\* str.rfind('.') + 1: the last position of a dot, 0 when there is none
RFindDot(s) ==
    IF \E i \in 1..Len(s) : s[i] = "."
    THEN CHOOSE i \in 1..Len(s) : s[i] = "." /\ \A j \in (i+1)..Len(s) : s[j] # "."
    ELSE 0

\* PurePath.suffix: name[i:] when 0 < i < len(name) - 1 (0-based), else ''
\* (pathlib up to Python 3.12; later versions agree on the names used here)
Suffix(name) ==
    LET i == RFindDot(name)
    IN  IF 1 < i /\ i < Len(name) THEN SubSeq(name, i, Len(name)) ELSE <<>>

\* PurePath.stem: name[:i] under the same condition, else the whole name
Stem(name) ==
    LET i == RFindDot(name)
    IN  IF 1 < i /\ i < Len(name) THEN SubSeq(name, 1, i - 1) ELSE name

-----------------------------------------------------------------------------
(* Presets (VideoPipeline._load_preset) *)

presets ==
    [ tiktok  |-> [width |-> 1080, height |-> 1920, fps |-> 30,
                   bitrate |-> "5M", codec |-> "h264_nvenc"],
      youtube |-> [width |-> 1080, height |-> 1920, fps |-> 60,
                   bitrate |-> "8M", codec |-> "h264_nvenc"] ]

\* presets.get(preset, presets['youtube']): the wrong default
LoadPresetWrongDefault(p) ==
    IF p \in DOMAIN presets THEN presets[p] ELSE presets["youtube"]

\* presets.get(preset, presets['tiktok'])
_load_preset(p) ==
    IF p \in DOMAIN presets THEN presets[p] ELSE presets["tiktok"]

NoConfig == [width |-> 0, height |-> 0, fps |-> 0, bitrate |-> "", codec |-> ""]

-----------------------------------------------------------------------------
(* The file system *)

\* directory ids: input_dir is "in"; output_dir is "out", or "in" when the
\* program is given the same path for both
input_dir == "in"
DirIds == {"in", "out"}

N_a_mp4   == <<"a",".","m","p","4">>
N_b_MKV   == <<"b",".","M","K","V">>
N_c_txt   == <<"c",".","t","x","t">>
N_d_avi   == <<"d",".","a","v","i">>
N_a_MoV   == <<"a",".","M","o","V">>
N_hidden  == <<".","m","p","4">>
N_enddot  == <<"e",".","m","p","4",".">>
N_sub     == <<"s","u","b">>
N_z_mp4   == <<"z",".","m","p","4">>
N_a_mp4_out == <<"a","_","p","r","o","c","e","s","s","e","d",".","m","p","4">>

\* paths relative to a directory: <<name>> is an entry directly inside it,
\* <<sub, name>> an entry of its subdirectory sub
EntryUniverse ==
    { <<N_a_mp4>>, <<N_b_MKV>>, <<N_c_txt>>, <<N_d_avi>>, <<N_a_MoV>>,
      <<N_hidden>>, <<N_enddot>>, <<N_sub>>, <<N_sub, N_z_mp4>> }

\* a tree holds the parent of each of its entries
IsTree(t) == \A p \in t : Len(p) > 1 => SubSeq(p, 1, Len(p) - 1) \in t

\* Path.iterdir(): the names of the entries directly inside the directory
IterDir(fs, d) == { p[1] : p \in { q \in fs[d].tree : Len(q) = 1 } }

\* Path.mkdir(parents=True, exist_ok=False): raises on an existing directory
MkdirNotExistOk(fs, d) ==
    IF fs[d].state = "missing"
    THEN [raised |-> FALSE, fs |-> [fs EXCEPT ![d] = [state |-> "dir", tree |-> {}]]]
    ELSE [raised |-> TRUE, fs |-> fs]

\* the constructor without its mkdir call
MkdirSkipped(fs, d) == [raised |-> FALSE, fs |-> fs]

\* Path.mkdir(parents=True, exist_ok=True)
Mkdir(fs, d) ==
    IF fs[d].state = "missing"
    THEN [raised |-> FALSE, fs |-> [fs EXCEPT ![d] = [state |-> "dir", tree |-> {}]]]
    ELSE [raised |-> FALSE, fs |-> fs]

-----------------------------------------------------------------------------
(* run(): selection of the input files *)

video_extensions ==
    { <<".","m","p","4">>, <<".","m","k","v">>, <<".","a","v","i">>, <<".","m","o","v">> }

\* f.suffix in video_extensions: the comparison without lower()
IsVideoCaseSensitive(name) == Suffix(name) \in video_extensions

\* f.suffix.lower() in video_extensions
IsVideo(name) == Lower(Suffix(name)) \in video_extensions

\* iterdir() on a directory that is treated as empty when it cannot be listed
ListingRaisesNever(fs) == FALSE

\* self.input_dir.iterdir() raises when the directory is missing or unreadable
ListingRaises(fs) == fs[input_dir].state # "dir"

\* the names the list comprehension of run() keeps
Matching(fs) == { n \in IterDir(fs, input_dir) : IsVideo(n) }

\* all orders in which a directory enumeration can yield the names of S
Orders(S) ==
    { s \in [1..Cardinality(S) -> S] : \A i, j \in 1..Cardinality(S) : s[i] = s[j] => i = j }

\* the orders run() can get its list in: that of the enumeration, unsorted
ListingOrders(S) == Orders(S)

-----------------------------------------------------------------------------
(* process_video(): output path and command *)

ProcessedSuffix == <<"_","p","r","o","c","e","s","s","e","d",".","m","p","4">>

\* f"{input_file.name}_processed.mp4": the whole name instead of the stem
OutputFileFromName(out, name) == [dir |-> out, name |-> name \o ProcessedSuffix]

\* self.output_dir / f"{input_file.stem}_processed.mp4"
OutputFile(out, name) == [dir |-> out, name |-> Stem(name) \o ProcessedSuffix]

NoPath == [dir |-> "", name |-> <<>>]

\* the list cmd of process_video
BuildCmd(cfg, out, name) ==
    [ hwaccel |-> "cuda", input |-> [dir |-> input_dir, name |-> name],
      scale |-> <<cfg.width, cfg.height>>, pad |-> <<cfg.width, cfg.height>>,
      vcodec |-> cfg.codec, vbitrate |-> cfg.bitrate, rate |-> cfg.fps,
      acodec |-> "aac", abitrate |-> "128k", overwrite |-> TRUE,
      output |-> OutputFile(out, name) ]

NoCmd ==
    [ hwaccel |-> "", input |-> NoPath, scale |-> <<0, 0>>, pad |-> <<0, 0>>,
      vcodec |-> "", vbitrate |-> "", rate |-> 0, acodec |-> "", abitrate |-> "",
      overwrite |-> FALSE, output |-> NoPath ]

\* the encoder can open its output file: the directory is there, and the file
\* is absent or may be overwritten
CanWrite(fs, c) ==
    /\ fs[c.output.dir].state = "dir"
    /\ (c.overwrite \/ <<c.output.name>> \notin fs[c.output.dir].tree)

\* the file system after the encoder wrote its output file
WriteFile(fs, path) ==
    [fs EXCEPT ![path.dir].tree = @ \cup {<<path.name>>}]

-----------------------------------------------------------------------------
(* Initial states: the arguments of the program and the directories as the  *)
(* program finds them                                                       *)

PresetNames == {"tiktok", "youtube", "instagram"}

InputTrees == { t \in SUBSET EntryUniverse : Cardinality(t) <= MaxEntries /\ IsTree(t) }

\* the output directory as found: empty, or holding the output of an earlier
\* conversion of a.mp4
OutputTrees == { {}, {<<N_a_mp4_out>>} }

\* the names in a sequence
Range(s) == { s[i] : i \in 1..Len(s) }

\* what a run of the program finds in its output directory
AtStart(fs, out) == [existed |-> fs[out].state # "missing", files |-> IterDir(fs, out)]

NoPrev == [ran |-> FALSE, listing |-> {}, ok |-> FALSE]

Init ==
    /\ preset \in PresetNames
    /\ output_dir \in DirIds
    /\ \E ist \in {"missing", "unreadable", "dir"}, t \in InputTrees,
          ost \in {"missing", "dir"}, ot \in OutputTrees :
            /\ ist # "dir" => t = {}
            /\ ost # "dir" => ot = {}
            \* with one path for both directories there is no separate output directory
            /\ output_dir = input_dir => (ost = "missing" /\ ot = {})
            /\ dirs = [d \in DirIds |->
                         IF d = input_dir THEN [state |-> ist, tree |-> t]
                                          ELSE [state |-> ost, tree |-> ot]]
    /\ start = AtStart(dirs, output_dir)
    /\ config = NoConfig
    /\ pc = "init"
    /\ error = ""
    /\ input_files = <<>>
    /\ idx = 0
    /\ status = <<>>
    /\ invoked = <<>>
    /\ outputs = <<>>
    /\ exits = <<>>
    /\ cmd = NoCmd
    /\ runNo = 1
    /\ prev = NoPrev

-----------------------------------------------------------------------------
(* Actions *)

\* VideoPipeline.__init__
Construct ==
    /\ pc = "init"
    /\ LET r == Mkdir(dirs, output_dir)
       IN  IF r.raised
           THEN /\ pc' = "raised"
                /\ error' = "FileExistsError"
                /\ UNCHANGED <<dirs, config>>
           ELSE /\ dirs' = r.fs
                /\ config' = _load_preset(preset)
                /\ pc' = "constructed"
                /\ UNCHANGED error
    /\ UNCHANGED <<output_dir, preset, input_files, idx, status, invoked, outputs,
                   cmd, exits, runNo, start, prev>>

\* run(), up to the for loop: the listing that cannot be read
RunListFails ==
    /\ pc = "constructed"
    /\ ListingRaises(dirs)
    /\ pc' = "raised"
    /\ error' = IF dirs[input_dir].state = "missing" THEN "FileNotFoundError"
                                                     ELSE "PermissionError"
    /\ UNCHANGED <<dirs, output_dir, preset, config, input_files, idx, status,
                   invoked, outputs, cmd, exits, runNo, start, prev>>

\* run(), up to the for loop: input_files is built, in the order of the
\* enumeration; with no file the function returns
RunList ==
    /\ pc = "constructed"
    /\ ~ListingRaises(dirs)
    /\ \E order \in ListingOrders(Matching(dirs)) :
          /\ input_files' = order
          /\ status' = [n \in Matching(dirs) |-> "Pending"]
          /\ invoked' = [n \in Matching(dirs) |-> 0]
          /\ outputs' = [n \in Matching(dirs) |-> NoPath]
          /\ exits' = [n \in Matching(dirs) |-> "none"]
          /\ idx' = 1
          /\ pc' = IF order = <<>> THEN "returned" ELSE "loop"
    /\ UNCHANGED <<dirs, output_dir, preset, config, error, cmd, runNo, start, prev>>

\* the for loop takes the next file; process_video builds the command and
\* starts the encoder
ProcessVideoStart ==
    /\ pc = "loop"
    /\ idx <= Len(input_files)
    /\ LET f == input_files[idx]
           c == BuildCmd(config, output_dir, f)
       IN  /\ cmd' = c
           /\ status' = [status EXCEPT ![f] = "Running"]
           /\ invoked' = [invoked EXCEPT ![f] = @ + 1]
           /\ outputs' = [outputs EXCEPT ![f] = c.output]
    /\ pc' = "encoding"
    /\ UNCHANGED <<dirs, output_dir, preset, config, error, input_files, idx,
                   exits, runNo, start, prev>>

\* subprocess.run cannot start the encoder (no such program): OSError is not
\* caught by process_video
EncoderNotStarted ==
    /\ pc = "encoding"
    /\ pc' = "raised"
    /\ error' = "FileNotFoundError"
    /\ exits' = [exits EXCEPT ![input_files[idx]] = "notstarted"]
    /\ UNCHANGED <<dirs, output_dir, preset, config, input_files, idx, status,
                   invoked, outputs, cmd, runNo, start, prev>>

\* a loop that takes a failed file again
AfterJobRetry(i, succeeded) == IF succeeded THEN i + 1 ELSE i

\* the for loop of run() goes on to the next file, whatever process_video
\* returned
AfterJob(i, succeeded) == i + 1

\* the encoder exits with status 0: process_video returns output_file
EncoderExitZero ==
    /\ pc = "encoding"
    /\ CanWrite(dirs, cmd)
    /\ dirs' = WriteFile(dirs, cmd.output)
    /\ status' = [status EXCEPT ![input_files[idx]] = "Succeeded"]
    /\ exits' = [exits EXCEPT ![input_files[idx]] = "zero"]
    /\ idx' = AfterJob(idx, TRUE)
    /\ pc' = "loop"
    /\ UNCHANGED <<output_dir, preset, config, error, input_files, invoked, outputs,
                   cmd, runNo, start, prev>>

\* e.stderr.decode() raises UnicodeDecodeError on bytes that are not UTF-8
HandlerRaises(stderrIsUtf8) == ~stderrIsUtf8

\* the encoder exits with a non-zero status and leaves the output directory
\* as it was: CalledProcessError is caught, its stderr is decoded and printed
EncoderExitNonZero ==
    /\ pc = "encoding"
    /\ \E stderrIsUtf8 \in BOOLEAN :
          IF HandlerRaises(stderrIsUtf8)
          THEN /\ pc' = "raised"
               /\ error' = "UnicodeDecodeError"
               /\ UNCHANGED <<status, idx>>
          ELSE /\ status' = [status EXCEPT ![input_files[idx]] = "Failed"]
               /\ idx' = AfterJob(idx, FALSE)
               /\ pc' = "loop"
               /\ UNCHANGED error
    /\ exits' = [exits EXCEPT ![input_files[idx]] = "nonzero"]
    /\ UNCHANGED <<dirs, output_dir, preset, config, input_files, invoked, outputs, cmd,
                   runNo, start, prev>>

\* the for loop is exhausted: run() prints the summary and returns
RunReturn ==
    /\ pc = "loop"
    /\ idx > Len(input_files)
    /\ pc' = "returned"
    /\ UNCHANGED <<dirs, output_dir, preset, config, error, input_files, idx, status,
                   invoked, outputs, cmd, exits, runNo, start, prev>>

\* every encoder invocation of the run exited with status 0
AllExitsZero == \A f \in DOMAIN exits : exits[f] = "zero"

\* after the program has run to its end it is started again with the same
\* arguments
Rerun ==
    /\ pc = "returned"
    /\ runNo < MaxRuns
    /\ Cardinality(dirs[input_dir].tree) <= MaxEntries
    /\ prev' = [ran |-> TRUE, listing |-> Range(input_files), ok |-> AllExitsZero]
    /\ start' = AtStart(dirs, output_dir)
    /\ runNo' = runNo + 1
    /\ pc' = "init"
    /\ config' = NoConfig
    /\ error' = ""
    /\ input_files' = <<>>
    /\ idx' = 0
    /\ status' = <<>>
    /\ invoked' = <<>>
    /\ outputs' = <<>>
    /\ exits' = <<>>
    /\ cmd' = NoCmd
    /\ UNCHANGED <<dirs, output_dir, preset>>

Next ==
    \/ Construct
    \/ RunListFails
    \/ RunList
    \/ ProcessVideoStart
    \/ EncoderNotStarted
    \/ EncoderExitZero
    \/ EncoderExitNonZero
    \/ RunReturn
    \/ Rerun

Spec == Init /\ [][Next]_vars

-----------------------------------------------------------------------------
(* Notions the properties are stated in, written without the operators of   *)
(* the model above                                                          *)

\* run() has built its list in the current run
Listed == pc \in {"loop", "encoding"} \/ (pc \in {"returned", "raised"} /\ DOMAIN status # {})
              \/ (pc = "returned" /\ input_files = <<>>)

\* c and e are the same letter up to case, e being lower case
SameLetter(c, e) == c = e \/ \E i \in 1..26 : Upper[i] = c /\ LowerAlpha[i] = e

ExtensionAllowList == { <<"m","p","4">>, <<"m","k","v">>, <<"a","v","i">>, <<"m","o","v">> }

\* the name is a non-empty base name, a dot, and an extension of the allow-list
\* in any mix of cases
HasVideoExtension(n) ==
    \E e \in ExtensionAllowList :
        /\ Len(n) > Len(e) + 1
        /\ n[Len(n) - Len(e)] = "."
        /\ \A i \in 1..Len(e) : SameLetter(n[Len(n) - Len(e) + i], e[i])

\* the names of the entries directly inside the directory
DirectNames(t) == { q[1] : q \in { p \in t : Len(p) = 1 } }

\* the name without its last four characters (a dot and three letters)
BaseOf(n) == SubSeq(n, 1, Len(n) - 4)

JobNames == DOMAIN status

\* code point order of the characters used: '.' < digits < A-Z < '_' < a-z
CharOrder == <<".">> \o Digits \o Upper \o <<"_">> \o LowerAlpha

Ord(c) == CHOOSE i \in 1..Len(CharOrder) : CharOrder[i] = c

\* s1 < s2 as Python compares str (by code point, a prefix first)
RECURSIVE StrLess(_, _)
StrLess(s1, s2) ==
    IF s2 = <<>> THEN FALSE
    ELSE IF s1 = <<>> THEN TRUE
    ELSE IF s1[1] # s2[1] THEN Ord(s1[1]) < Ord(s2[1])
    ELSE StrLess(Tail(s1), Tail(s2))

Terminal == {"Succeeded", "Failed"}

N_clip_mov == <<"c","l","i","p",".","m","o","v">>
N_clip_out == <<"c","l","i","p","_","p","r","o","c","e","s","s","e","d",".","m","p","4">>

ExampleDir ==
    [d \in DirIds |-> IF d = input_dir
                      THEN [state |-> "dir",
                            tree |-> {<<N_a_mp4>>, <<N_b_MKV>>, <<N_c_txt>>, <<N_d_avi>>}]
                      ELSE [state |-> "dir", tree |-> {}]]

-----------------------------------------------------------------------------
(* C1 *)

\* C1: a job whose encoder invocation ended with a non-zero exit status is
\* recorded as Failed (process_video returned None), and the run has not
\* raised at that job: the loop goes on to the files after it.
C1_FailureNeverAbortsBatch ==
    \A f \in JobNames :
        exits[f] = "nonzero" =>
            /\ status[f] = "Failed"
            /\ ~(pc = "raised" /\ input_files[idx] = f)

-----------------------------------------------------------------------------
(* C2 *)

\* C2: once the constructor has run, the configuration is exactly
\* (1080, 1920, 30, "5M", "h264_nvenc") for tiktok, (1080, 1920, 60, "8M",
\* "h264_nvenc") for youtube, and the tiktok tuple for every other name; the
\* lookup raises for no name.
C2_PresetTable ==
    pc # "init" =>
        /\ preset = "youtube" =>
              config = [width |-> 1080, height |-> 1920, fps |-> 60,
                        bitrate |-> "8M", codec |-> "h264_nvenc"]
        /\ preset # "youtube" =>
              config = [width |-> 1080, height |-> 1920, fps |-> 30,
                        bitrate |-> "5M", codec |-> "h264_nvenc"]

C2_Witness ==
    /\ pc = "constructed"
    /\ preset = "instagram"
    /\ config.fps = 30 /\ config.bitrate = "5M"

-----------------------------------------------------------------------------
(* C3 *)

\* C3: right after run() has built its list, the jobs are exactly the entries
\* directly inside input_dir whose extension is mp4, mkv, avi or mov in any
\* mix of cases, each once; for a.mp4, b.MKV, c.txt, d.avi they are a.mp4,
\* b.MKV, d.avi.
C3_JobsAreTheVideoEntries ==
    /\ ((pc = "loop" /\ idx = 1) \/ (pc = "returned" /\ input_files = <<>>)) =>
          /\ Range(input_files) =
                { n \in DirectNames(dirs[input_dir].tree) : HasVideoExtension(n) }
          /\ JobNames = Range(input_files)
          /\ Len(input_files) = Cardinality(Range(input_files))
    /\ pc = "init" => Matching(ExampleDir) = {N_a_mp4, N_b_MKV, N_d_avi}

C3_Witness ==
    /\ pc = "loop" /\ idx = 1
    /\ dirs[input_dir].tree = {<<N_a_mp4>>, <<N_b_MKV>>, <<N_c_txt>>}
    /\ Range(input_files) = {N_a_mp4, N_b_MKV}

-----------------------------------------------------------------------------
(* C4 *)

\* C4: the output path handed to the encoder for a job is output_dir /
\* (base name + "_processed.mp4"); two jobs of a batch get the same output
\* path only if their names have the same base name; clip.mov with output
\* directory out gives out/clip_processed.mp4.
C4_OutputPath ==
    /\ \A f \in JobNames :
          status[f] # "Pending" =>
              outputs[f] = [dir |-> output_dir, name |-> BaseOf(f) \o ProcessedSuffix]
    /\ \A f, g \in JobNames :
          (status[f] # "Pending" /\ status[g] # "Pending" /\ outputs[f] = outputs[g])
              => BaseOf(f) = BaseOf(g)
    /\ pc = "init" => OutputFile("out", N_clip_mov) = [dir |-> "out", name |-> N_clip_out]

C4_Witness ==
    /\ {N_a_mp4, N_a_MoV, N_b_MKV} \subseteq JobNames
    /\ \A f \in JobNames : status[f] # "Pending"
    /\ outputs[N_a_mp4] = outputs[N_a_MoV]
    /\ outputs[N_a_mp4] # outputs[N_b_MKV]

-----------------------------------------------------------------------------
(* C5 *)

\* C5: when input_dir is a directory without a matching file, the program
\* past its constructor is never in the loop or in the encoder and has not
\* raised: run() has returned, the output directory exists, no job was
\* created, and the output directory holds the files it held when the program
\* started.
C5_NoMatchingFile ==
    (/\ pc \notin {"init", "constructed"}
     /\ dirs[input_dir].state = "dir"
     /\ \A n \in DirectNames(dirs[input_dir].tree) : ~HasVideoExtension(n)) =>
        /\ pc = "returned"
        /\ dirs[output_dir].state = "dir"
        /\ input_files = <<>>
        /\ JobNames = {}
        /\ DirectNames(dirs[output_dir].tree) = start.files

C5_Witness ==
    /\ pc = "returned"
    /\ output_dir = "out"
    /\ ~start.existed
    /\ dirs[output_dir] = [state |-> "dir", tree |-> {}]
    /\ dirs[input_dir].tree = {<<N_c_txt>>, <<N_hidden>>, <<N_enddot>>}
    /\ input_files = <<>>

-----------------------------------------------------------------------------
(* C6 *)

C6_Inv ==
    /\ \A f \in JobNames :
          /\ status[f] \in {"Pending", "Running", "Succeeded", "Failed"}
          /\ invoked[f] <= 1
          /\ invoked[f] = 1 <=> status[f] # "Pending"
    /\ Cardinality({ f \in JobNames : status[f] = "Running" }) <= 1
    /\ (pc = "returned" /\ input_files # <<>>) =>
          \A f \in Range(input_files) : status[f] \in Terminal /\ invoked[f] = 1

C6_Step ==
    runNo' = runNo =>
        \A f \in JobNames :
            /\ f \in DOMAIN status'
            /\ \/ status'[f] = status[f]
               \/ status[f] = "Pending" /\ status'[f] = "Running"
               \/ status[f] = "Running" /\ status'[f] \in Terminal
            /\ invoked'[f] >= invoked[f]

\* C6: within one batch every job moves only Pending -> Running ->
\* {Succeeded, Failed}; the encoder is invoked at most once per file and
\* exactly once for a file that has left Pending; a terminal state never
\* changes; at most one job is Running; and when run() returns after finding
\* files, every job is terminal and was invoked once.
C6_JobStateMachine == [](C6_Inv) /\ [][C6_Step]_vars

C6_Witness ==
    /\ pc = "returned"
    /\ Len(input_files) = 3
    /\ \E f, g \in JobNames : status[f] = "Succeeded" /\ status[g] = "Failed"

-----------------------------------------------------------------------------
(* C7 *)

\* C7: whenever some job is Running or terminal the output directory exists,
\* and the constructor never fails because the directory is already there.
C7_OutputDirExists ==
    /\ (\E f \in JobNames : status[f] # "Pending") => dirs[output_dir].state = "dir"
    /\ pc = "raised" => error # "FileExistsError"

C7_Witness ==
    /\ pc = "encoding"
    /\ output_dir = "out"
    /\ ~start.existed
    /\ dirs[output_dir].state = "dir"

-----------------------------------------------------------------------------
(* C8 *)

\* C8: when input_dir is missing or unreadable as run() lists it, run() ends
\* by raising the listing's error; no list is built, no job exists and no
\* encoder is invoked.
C8_MissingInputIsFatal ==
    (dirs[input_dir].state # "dir" /\ pc \notin {"init", "constructed"}) =>
        /\ pc = "raised"
        /\ error = IF dirs[input_dir].state = "missing" THEN "FileNotFoundError"
                                                        ELSE "PermissionError"
        /\ input_files = <<>>
        /\ JobNames = {}
        /\ cmd = NoCmd

C8_Witness ==
    /\ pc = "raised"
    /\ dirs[input_dir].state = "missing"
    /\ error = "FileNotFoundError"
    /\ dirs[output_dir].state = "dir"

-----------------------------------------------------------------------------
(* C9 *)

\* the run at hand is a re-run on the inputs of the previous run, every
\* encoder invocation of both runs exited with status 0, and the run is over
\* or has not got past its constructor
RerunOnSameInputs ==
    /\ prev.ran /\ prev.ok
    /\ dirs[input_dir].state = "dir"
    /\ { n \in DirectNames(dirs[input_dir].tree) : HasVideoExtension(n) } = prev.listing
    /\ \A f \in JobNames : exits[f] = "zero"

\* C9: a re-run on the same inputs and output directory in which the encoder
\* always writes its output raises no error, and when it has returned the
\* output directory holds the same files as after the previous run.
C9_RerunIdempotent ==
    RerunOnSameInputs =>
        /\ pc # "raised"
        /\ pc = "returned" => DirectNames(dirs[output_dir].tree) = start.files

C9_Witness ==
    /\ RerunOnSameInputs
    /\ pc = "returned"
    /\ Len(input_files) = 2
    /\ start.files = {N_a_mp4_out, <<"b">> \o ProcessedSuffix}

-----------------------------------------------------------------------------
(* C10 *)

\* C10: the list run() works through is sorted by name, so the order in which
\* jobs are started does not depend on the order of the enumeration.
C10_SortedOrder ==
    Listed => \A i \in 1..(Len(input_files) - 1) : StrLess(input_files[i], input_files[i+1])

=============================================================================
